---- MODULE Spec2Model ----
(***************************************************************************)
(* Model of bskyTools: the BskyListTool class and its command line         *)
(* (src/src/bsky_list_tool/bskylisttool.py) and the two standalone scripts *)
(* bskyListBackup.py and scratch/bskyMassLister.py.                        *)
(*                                                                         *)
(* One behaviour is one run of one program.  The Bluesky service, the      *)
(* handle resolver and the file system are the environment: every request  *)
(* the code sends is appended to `log`, and the answer is chosen by the    *)
(* environment inside the action that sends the request.                   *)
(*                                                                         *)
(* Python values: None is the string "None" where the value is a string    *)
(* or a token, NoCursor where it is a cursor, NoUri where it is a list     *)
(* uri.  Text that the code inspects character by character (input lines,  *)
(* post urls) is a sequence of one-character strings.                      *)
(***************************************************************************)
EXTENDS Integers, Sequences, FiniteSets, TLC

(* ------------------------------ bounds -------------------------------- *)
\* items in a server collection (list members, followers, likes)
MaxItems == 3
\* pages a server may cut a collection into
MaxPages == 3
\* the `limit` of a page request (100 in the code), scaled down
PageLimit == 2
\* lines in an input file
MaxLines == 2
\* lists an owner has on the server
MaxLists == 2

None == "None"
\* cursor = None
NoCursor == 0
\* list_uri = None
NoUri == 0

VARIABLES
  prog,         \* which program runs: "tool", "backup", "masslister"
  pc,           \* position of the run in the code
  err,          \* the exception that ended the run, or None
  args,         \* parsed command line (argparse namespace)
  tokenFs,      \* the token file   [exists, data]
  outFs,        \* the output file  [exists, data]
  init,         \* frame of __init__: its arguments, the credential file it
                \* read, and its locals token, file_handle, file_pw, handle, password
  self_handle,  \* self.handle
  session,      \* the client's session string (export_session_string()), or None
  frame,        \* frame of the running command: response, uri, cursor, page, lines, i ...
  log           \* every request sent and every file written, in order

vars == <<prog, pc, err, args, tokenFs, outFs, init,
          self_handle, session, frame, log>>

(* ------------------------------ strings ------------------------------- *)
Whitespace == {" ", "\n", "\t"}

s_at == <<"@">>
s_did == <<"d", "i", "d", ":">>
s_nl == <<"\n">>

\* str.rstrip()
RECURSIVE rstrip(_)
rstrip(s) ==
  IF s = <<>> THEN s
  ELSE IF s[Len(s)] \in Whitespace THEN rstrip(SubSeq(s, 1, Len(s) - 1))
  ELSE s

\* str.lstrip()
RECURSIVE lstrip(_)
lstrip(s) ==
  IF s = <<>> THEN s
  ELSE IF s[1] \in Whitespace THEN lstrip(SubSeq(s, 2, Len(s)))
  ELSE s

\* str.strip()
strip(s) == lstrip(rstrip(s))

\* str.startswith(p)
startswith(s, p) == Len(s) >= Len(p) /\ SubSeq(s, 1, Len(p)) = p

\* s[1::]
DropFirst(s) == SubSeq(s, 2, Len(s))

(* ------------------------------ the log ------------------------------- *)
\* requests: `ok` tells whether the service answered or the call raised
EvLogin(h, p, ok) ==
  [type |-> "login", method |-> "password", handle |-> h, secret |-> p, ok |-> ok]
EvLoginToken(t, ok) ==
  [type |-> "login", method |-> "token", handle |-> None, secret |-> t, ok |-> ok]
\* Params(actor=owner): the request names no cursor
EvGetLists(actor, ok) ==
  [type |-> "get_lists", actor |-> actor, cursor |-> NoCursor, ok |-> ok]
EvFetch(endpoint, target, limit, cursor, ok) ==
  [type |-> "fetch", endpoint |-> endpoint, target |-> target, limit |-> limit,
   cursor |-> cursor, ok |-> ok]
\* via "client": client.resolve_handle; via "resolver": resolver.handle.resolve
EvResolve(via, handle, ok) ==
  [type |-> "resolve", via |-> via, handle |-> handle, ok |-> ok]
EvCreate(repo, list, subject, created_at, ok) ==
  [type |-> "create", repo |-> repo, list |-> list, subject |-> subject,
   created_at |-> created_at, ok |-> ok]
\* file writes
EvOpen(path) == [type |-> "open_w", path |-> path, ok |-> TRUE]
EvWrite(path, data) == [type |-> "write", path |-> path, data |-> data, ok |-> TRUE]
EvSaveToken(t) == [type |-> "save_token", data |-> t, ok |-> TRUE]

(* ------------------------------ files --------------------------------- *)
NoFile == [exists |-> FALSE, data |-> None]
TokenFile(t) == [exists |-> TRUE, data |-> t]
\* an output file left by an earlier run
OldOutput == [exists |-> TRUE, data |-> << <<0, "\n">> >>]
\* open(file, 'w'): the file exists and is empty
Truncated == [exists |-> TRUE, data |-> <<>>]

\* the file opened with 'a': what it held stays
OpenW_Append(f) == IF f.exists THEN f ELSE Truncated

\* with open(file, 'w') as f: the file f after the open
OpenW(f) == Truncated

Tokens == {"tokA", "tokB"}

CredFiles ==
  {[exists |-> FALSE, my_handle |-> None, app_password |-> None]} \cup
  {[exists |-> TRUE, my_handle |-> h, app_password |-> p] :
      h \in {None, "h_file"}, p \in {None, "pw_file"}}

(* --------------------------- BskyListTool ----------------------------- *)
\* _read_token_from_file: the file's content, or None when it does not exist
read_token_from_file(file) == IF file.exists THEN file.data ELSE None

\* _parse_config_file: both options are read inside one try block, so a
\* missing my_handle (NoOptionError) leaves the password unread
parse_config_file(file) ==
  IF file.my_handle = None
  THEN [handle |-> None, password |-> None]
  ELSE [handle |-> file.my_handle, password |-> file.app_password]

\* __init__, lines 19-33: its frame when it reaches the login (or raises)
InitFrame(tf, cf, h, p) ==
  LET token == read_token_from_file(tf)
      parsed == IF cf.exists THEN parse_config_file(cf)
                ELSE [handle |-> None, password |-> None]
      file_handle == parsed.handle
      file_pw == parsed.password
  IN [arg_handle |-> h, arg_password |-> p, cred_file |-> cf,
      token |-> token, file_handle |-> file_handle, file_pw |-> file_pw,
      handle |-> IF h = None THEN file_handle ELSE h,
      password |-> IF p = None THEN file_pw ELSE p]

\* no __init__ frame (before the call, and after it returned)
NoInit == InitFrame(NoFile, [exists |-> FALSE, my_handle |-> None, app_password |-> None],
                    None, None)

\* __init__, lines 26-33: the ValueError checks
MissingCredentials(fr) == fr.handle = None \/ fr.password = None

\* the token ignored: always handle and password
LoginRequest_Password(fr, ok) == EvLogin(fr.handle, fr.password, ok)

\* __init__, lines 38-41: the login request
LoginRequest(fr, ok) ==
  IF fr.token = None THEN EvLogin(fr.handle, fr.password, ok)
  ELSE EvLoginToken(fr.token, ok)

\* the with-block's __exit__ run although __init__ raised
InitRaises_Exit(e) == "exit"

\* an exception in __init__: no object, no with-block, no __exit__; the
\* position the run is left at
InitRaises(e) == "crashed"

\* BskyListTool.__init__(handle, password, cred_file, token_file)
BskyListTool_init ==
  /\ prog = "tool" /\ pc = "main"
  /\ \E cf \in CredFiles, h \in {None, "h_arg"}, p \in {None, "pw_arg"} :
       LET fr == InitFrame(tokenFs, cf, h, p) IN
       /\ init' = fr
       /\ IF MissingCredentials(fr)
          THEN /\ err' = "ValueError"
               /\ pc' = InitRaises("ValueError")
               /\ UNCHANGED <<self_handle, session, log>>
          ELSE /\ self_handle' = fr.handle
               /\ \/ \E s \in Tokens :
                       /\ session' = s
                       /\ log' = Append(log, LoginRequest(fr, TRUE))
                       /\ pc' = "constructed"
                       /\ err' = None
                  \/ /\ session' = None
                     /\ log' = Append(log, LoginRequest(fr, FALSE))
                     /\ pc' = InitRaises("LoginError")
                     /\ err' = "LoginError"
  /\ UNCHANGED <<prog, args, tokenFs, outFs, frame>>

(* ------------------------- the service's data ------------------------- *)
ListNames == {"Friends", "Hatespam"}

\* the lists of an owner, in the order the service returns them; the uri of
\* a list is its position, so two lists never share a uri
ListSets ==
  UNION {{[i \in 1..m |-> [name |-> f[i], uri |-> i]] : f \in [1..m -> ListNames]} :
            m \in 0..MaxLists}

RECURSIVE SumSeq(_)
SumSeq(q) == IF q = <<>> THEN 0 ELSE Head(q) + SumSeq(Tail(q))

\* the pages of sizes sz over the collection 1, 2, ..., SumSeq(sz)
PagesOf(sz) ==
  [j \in 1..Len(sz) |-> [k \in 1..sz[j] |-> SumSeq(SubSeq(sz, 1, j - 1)) + k]]

\* every way the service may cut a collection of at most MaxItems items into
\* at most MaxPages pages of at most PageLimit items each (empty pages and a
\* trailing empty page included)
Chains ==
  {PagesOf(sz) : sz \in {q \in UNION {[1..m -> 0..PageLimit] : m \in 1..MaxPages} :
                            SumSeq(q) <= MaxItems}}

RECURSIVE Flatten(_)
Flatten(pages) == IF pages = <<>> THEN <<>> ELSE Head(pages) \o Flatten(Tail(pages))

\* an item as the endpoint of method fn returns it
ServerItem(fn, d) ==
  CASE fn = "backup_list" -> [subject |-> [did |-> d]]
    [] fn = "get_followers" -> [did |-> d]
    [] fn = "get_likes" -> [actor |-> [did |-> d]]

\* the page the service returns for `cursor`: cursor None is the first page,
\* cursor j the page after page j; the last page carries no cursor
ServerPage(fn, chain, cursor) ==
  LET j == cursor + 1 IN
  [items |-> [k \in 1..Len(chain[j]) |-> ServerItem(fn, chain[j][k])],
   cursor |-> IF j < Len(chain) THEN j ELSE NoCursor]

(* ------------------------------ commands ------------------------------ *)
\* frame of a method of BskyListTool: its locals
Frame0(fn) ==
  [fn |-> fn, response |-> <<>>, uri |-> NoUri, chain |-> <<>>, cursor |-> NoCursor,
   page |-> <<>>, i |-> 0, lines |-> <<>>, at_uri |-> <<>>, file_exists |-> TRUE]

\* __main__, lines 182-199: the match on the parsed arguments
MethodOf(a) ==
  CASE a.cmd = "list_add" -> "add_file_to_list"
    [] a.cmd = "fetch_list" -> "backup_list"
    [] a.cmd = "fetch_followers" -> "get_followers"
    [] a.cmd = "fetch_likes" -> "get_likes"
    [] OTHER -> "exit"

Main_match ==
  /\ prog = "tool" /\ pc = "constructed"
  /\ pc' = MethodOf(args)
  /\ frame' = Frame0(MethodOf(args))
  /\ init' = NoInit
  /\ UNCHANGED <<prog, err, args, tokenFs, outFs, self_handle, session, log>>

\* an exception leaves the method; the with-block runs __exit__
Raise(e) == pc' = "exit" /\ err' = e

\* the scan without break: the last list named listname wins
RECURSIVE get_list_uri_Last(_, _)
get_list_uri_Last(listname, lists) ==
  IF lists = <<>> THEN NoUri
  ELSE IF lists[Len(lists)].name = listname THEN lists[Len(lists)].uri
  ELSE get_list_uri_Last(listname, SubSeq(lists, 1, Len(lists) - 1))

\* _get_list_uri, lines 142-148: the uri of the first list named listname;
\* NoUri stands for the for-else branch, which raises ListNotFoundException
RECURSIVE get_list_uri(_, _)
get_list_uri(listname, lists) ==
  IF lists = <<>> THEN NoUri
  ELSE IF Head(lists).name = listname THEN Head(lists).uri
  ELSE get_list_uri(listname, Tail(lists))

\* the call uri = self._get_list_uri(listname, owner) made at position `at`,
\* continuing at position `next`
Call_get_list_uri(at, listname, owner, next) ==
  /\ pc = at
  /\ \/ /\ log' = Append(log, EvGetLists(owner, FALSE))
        /\ Raise("TransportError")
        /\ UNCHANGED frame
     \/ \E ls \in ListSets :
          LET u == get_list_uri(listname, ls) IN
          /\ log' = Append(log, EvGetLists(owner, TRUE))
          /\ frame' = [frame EXCEPT !.response = ls, !.uri = u]
          /\ IF u = NoUri THEN Raise("ListNotFoundException")
             ELSE pc' = next /\ err' = err

\* the output file opened before the name is resolved
FileAtResolve_Opened(f) == Truncated

\* lines 102-104, 127-129: the name is resolved before the output file is
\* opened, so the resolution step leaves the file f as it is
FileAtResolve(f) == f

\* backup_list, line 102
backup_list_resolve ==
  /\ prog = "tool"
  /\ Call_get_list_uri("backup_list", args.list_name, args.owner, "backup_list_open")
  /\ outFs' = FileAtResolve(outFs)
  /\ UNCHANGED <<prog, args, tokenFs, init, self_handle, session>>

\* cursor = None; with open(file, 'w') as f: the file is truncated.  The
\* collection the service will deliver is fixed from here on.
OpenOutput ==
  /\ \E c \in Chains : frame' = [frame EXCEPT !.response = <<>>, !.chain = c,
                                              !.cursor = NoCursor]
  /\ outFs' = OpenW(outFs)
  /\ log' = Append(log, EvOpen(args.file))
  /\ pc' = "collect_fetch"
  /\ UNCHANGED <<prog, err, args, tokenFs, init, self_handle, session>>

\* backup_list, lines 103-104
backup_list_open ==
  /\ prog = "tool" /\ pc = "backup_list_open"
  /\ OpenOutput

\* get_followers, lines 116-117
get_followers_open ==
  /\ prog = "tool" /\ pc = "get_followers"
  /\ OpenOutput

\* the first list of the owner taken for the named one
FetchTarget_FirstList(fn, fr, a) ==
  CASE fn = "backup_list" -> 1
    [] fn = "get_followers" -> a.handle
    [] fn = "get_likes" -> fr.at_uri

\* what the page request of method fn is about
FetchTarget(fn, fr, a) ==
  CASE fn = "backup_list" -> fr.uri
    [] fn = "get_followers" -> a.handle
    [] fn = "get_likes" -> fr.at_uri

\* the cursor of the page before is sent again
RequestCursor_Stale(fr) == IF fr.cursor > 1 THEN fr.cursor - 1 ELSE fr.cursor

\* the cursor a page request carries
RequestCursor(fr) == fr.cursor

\* lines 106-109, 119-120, 131-132: one page request; cursor = page.cursor
Collect_fetch ==
  /\ prog = "tool" /\ pc = "collect_fetch"
  /\ LET fn == frame.fn
         req(ok) == EvFetch(fn, FetchTarget(fn, frame, args), PageLimit,
                            RequestCursor(frame), ok)
     IN \/ /\ log' = Append(log, req(FALSE))
           /\ Raise("TransportError")
           /\ UNCHANGED frame
        \/ LET page == ServerPage(fn, frame.chain, RequestCursor(frame)) IN
           /\ log' = Append(log, req(TRUE))
           /\ frame' = [frame EXCEPT !.cursor = page.cursor, !.page = page.items, !.i = 1]
           /\ pc' = "collect_write"
           /\ err' = err
  /\ UNCHANGED <<prog, args, tokenFs, outFs, init, self_handle, session>>

\* the did of an item: entry.subject.did, follower.did, like.actor.did
Project(fn, item) ==
  CASE fn = "backup_list" -> item.subject.did
    [] fn = "get_followers" -> item.did
    [] fn = "get_likes" -> item.actor.did

\* the newline forgotten
WriteLine_NoNewline(data, did) == Append(data, <<did>>)

\* f.write(did + '\n')
WriteLine(data, did) == Append(data, <<did, "\n">>)

\* the loop also left at a page that is not full
LoopEnds_ShortPage(fr) == fr.cursor = NoCursor \/ Len(fr.page) < PageLimit

\* the loop ends when the page just written carried no cursor
LoopEnds(fr) == fr.cursor = NoCursor

\* lines 110-113, 121-124, 133-136: write the next item of the page, or, the
\* page done, leave the loop when its cursor is None and fetch again otherwise
Collect_write ==
  /\ prog = "tool" /\ pc = "collect_write"
  /\ IF frame.i <= Len(frame.page)
     THEN /\ outFs' = [outFs EXCEPT !.data = WriteLine(@, Project(frame.fn, frame.page[frame.i]))]
          /\ log' = Append(log, EvWrite(args.file, Project(frame.fn, frame.page[frame.i])))
          /\ frame' = [frame EXCEPT !.i = @ + 1]
          /\ pc' = pc
     ELSE /\ pc' = IF LoopEnds(frame) THEN "exit" ELSE "collect_fetch"
          /\ UNCHANGED <<outFs, log, frame>>
  /\ UNCHANGED <<prog, err, args, tokenFs, init, self_handle, session>>

(* ------------------------------ get_likes ----------------------------- *)
\* position of the first c in s, 0 when there is none
IndexOf(s, c) ==
  IF \E i \in 1..Len(s) : s[i] = c
  THEN CHOOSE i \in 1..Len(s) : s[i] = c /\ \A j \in 1..(i - 1) : s[j] # c
  ELSE 0

\* str.split(c)
RECURSIVE split(_, _)
split(s, c) ==
  LET i == IndexOf(s, c) IN
  IF i = 0 THEN <<s>>
  ELSE <<SubSeq(s, 1, i - 1)>> \o split(SubSeq(s, i + 1, Len(s)), c)

s_at_scheme == <<"a", "t", ":", "/", "/">>
s_post_collection ==
  <<"/", "a", "p", "p", ".", "b", "s", "k", "y", ".", "f", "e", "e", "d", ".",
    "p", "o", "s", "t", "/">>

\* the did the directory holds for a handle
DidOf(handle) == s_did \o <<"=">> \o handle

\* _link_to_at_uri, lines 151-153: http_url[4] and http_url[6] (0-indexed)
UrlSegments(link) == split(link, "/")
UrlProfile(link) == UrlSegments(link)[5]
\* http_url[5] taken for the record key
UrlRkey_OffByOne(link) == UrlSegments(link)[6]
UrlRkey(link) == UrlSegments(link)[7]
\* indexing past the end raises IndexError
UrlIndexError(link) == Len(UrlSegments(link)) < 7

\* _link_to_at_uri, line 155
AtUri(did, rkey) == s_at_scheme \o did \o s_post_collection \o rkey

\* post urls of the command line: the expected shape, too few segments, an
\* empty record key, an empty handle, a trailing slash
PostUrls ==
  { <<"h", ":", "/", "/", "s", "/", "p", "/", "a", "/", "q", "/", "k">>,
    <<"h", ":", "/", "/", "s", "/", "p", "/", "a", "/", "q">>,
    <<"h", ":", "/", "/", "s", "/", "p">>,
    <<>>,
    <<"h", ":", "/", "/", "s", "/", "p", "/", "a", "/", "q", "/">>,
    <<"h", ":", "/", "/", "s", "/", "p", "/", "/", "q", "/", "k">>,
    <<"h", ":", "/", "/", "s", "/", "p", "/", "a", "/", "q", "/", "k", "/">> }

\* get_likes, line 127: at_uri = self._link_to_at_uri(post_url)
get_likes_link ==
  /\ prog = "tool" /\ pc = "get_likes"
  /\ IF UrlIndexError(args.url)
     THEN /\ Raise("IndexError")
          /\ UNCHANGED <<frame, log>>
     ELSE \/ /\ log' = Append(log, EvResolve("client", UrlProfile(args.url), FALSE))
             /\ Raise("TransportError")
             /\ UNCHANGED frame
          \/ /\ log' = Append(log, EvResolve("client", UrlProfile(args.url), TRUE))
             /\ frame' = [frame EXCEPT
                            !.at_uri = AtUri(DidOf(UrlProfile(args.url)), UrlRkey(args.url))]
             /\ pc' = "get_likes_open"
             /\ err' = err
  /\ outFs' = FileAtResolve(outFs)
  /\ UNCHANGED <<prog, args, tokenFs, init, self_handle, session>>

\* get_likes, lines 128-129
get_likes_open ==
  /\ prog = "tool" /\ pc = "get_likes_open"
  /\ OpenOutput

(* --------------------------- add_file_to_list ------------------------- *)
\* line bodies of an input file: blank, whitespace only, a handle, an
\* @-handle, trailing whitespace, a did, an @-did, two @, leading whitespace,
\* a prefix of the did prefix, a lone @
InputBodies ==
  { <<>>, <<" ">>, <<"a">>, <<"@", "a">>, <<"a", " ">>,
    <<"d", "i", "d", ":", "a">>, <<"@", "d", "i", "d", ":", "a">>,
    <<"@", "@", "a">>, <<" ", "@", "a">>, <<"d", "i", "d">>, <<"@">> }

\* the lines a file yields when iterated: each ends with its newline
InputFiles ==
  UNION {{[i \in 1..m |-> f[i] \o s_nl] : f \in [1..m -> InputBodies]} : m \in 0..MaxLines}

\* line 86 (bskyMassLister.py line 57): if line.strip()
IsBlank(line) == strip(line) = <<>>

\* strip() in place of rstrip()
Normalize_Strip(line) ==
  LET l == strip(line) IN
  IF startswith(l, s_at) THEN DropFirst(l) ELSE l

\* lines 87-89 (bskyMassLister.py lines 58-60)
Normalize(line) ==
  LET l == rstrip(line) IN
  IF startswith(l, s_at) THEN DropFirst(l) ELSE l

\* line 90 (bskyMassLister.py line 61): if not line.startswith('did:')
NeedsResolve(l) == ~startswith(l, s_did)

\* the check left out
MissingInput_Unchecked(exists) == FALSE

\* line 81: if not file.exists()
MissingInput(exists) == ~exists

\* add_file_to_list, lines 79-82; the input file is there or not
add_file_exists ==
  /\ prog = "tool" /\ pc = "add_file_to_list"
  /\ \E ex \in BOOLEAN :
       /\ frame' = [frame EXCEPT !.file_exists = ex]
       /\ IF MissingInput(ex) THEN Raise("FileNotFoundError")
          ELSE pc' = "add_file_uri" /\ err' = err
  /\ UNCHANGED <<prog, args, tokenFs, outFs, init, self_handle, session, log>>

\* add_file_to_list, line 83
add_file_resolve ==
  /\ prog = "tool"
  /\ Call_get_list_uri("add_file_uri", args.list_name, self_handle, "add_file_open")
  /\ UNCHANGED <<prog, args, tokenFs, outFs, init, self_handle, session>>

\* add_file_to_list, line 84: with open(file, 'r') as f
add_file_open ==
  /\ prog = "tool" /\ pc = "add_file_open"
  /\ \E f \in InputFiles : frame' = [frame EXCEPT !.response = <<>>, !.lines = f, !.i = 1]
  /\ pc' = "add_loop"
  /\ UNCHANGED <<prog, err, args, tokenFs, outFs, init, self_handle, session, log>>

\* a failed create swallowed: the loop goes on
LineStep_Swallow(line, repo, uri, l0) ==
  IF IsBlank(line) THEN {[log |-> l0, err |-> None]}
  ELSE LET l == Normalize(line)
           subject == IF NeedsResolve(l) THEN DidOf(l) ELSE l
           l1 == IF NeedsResolve(l) THEN Append(l0, EvResolve("resolver", l, TRUE)) ELSE l0
       IN {[log |-> Append(l1, EvCreate(repo, uri, subject, Len(l1), ok)), err |-> None] :
             ok \in BOOLEAN}

IsCreateOf(e, subject) == e.type = "create" /\ e.subject = subject

\* a subject already written in this run is not written again
LineStep_Dedup(line, repo, uri, l0) ==
  IF IsBlank(line) THEN {[log |-> l0, err |-> None]}
  ELSE LET l == Normalize(line)
           subject == IF NeedsResolve(l) THEN DidOf(l) ELSE l
           l1 == IF NeedsResolve(l) THEN Append(l0, EvResolve("resolver", l, TRUE)) ELSE l0
       IN IF \E k \in 1..Len(l0) : IsCreateOf(l0[k], subject)
          THEN {[log |-> l1, err |-> None]}
          ELSE {[log |-> Append(l1, EvCreate(repo, uri, subject, Len(l1), TRUE)),
                 err |-> None]}

\* one pass of the loop body for `line`, sending to list `uri` as `repo`:
\* the requests it sends and whether it raises.  A handle the resolver
\* cannot resolve ends the run before the record is created.
LineStep(line, repo, uri, l0) ==
  IF IsBlank(line) THEN {[log |-> l0, err |-> None]}
  ELSE LET l == Normalize(line)
           subject == IF NeedsResolve(l) THEN DidOf(l) ELSE l
           l1 == IF NeedsResolve(l) THEN Append(l0, EvResolve("resolver", l, TRUE)) ELSE l0
       IN (IF NeedsResolve(l)
           THEN {[log |-> Append(l0, EvResolve("resolver", l, FALSE)),
                  err |-> "ResolutionError"]}
           ELSE {}) \cup
          {[log |-> Append(l1, EvCreate(repo, uri, subject, Len(l1), TRUE)), err |-> None],
           [log |-> Append(l1, EvCreate(repo, uri, subject, Len(l1), FALSE)),
            err |-> "TransportError"]}

\* add_file_to_list, lines 85-99: the next line of the file, or the end
add_file_line ==
  /\ prog = "tool" /\ pc = "add_loop"
  /\ IF frame.i > Len(frame.lines)
     THEN /\ pc' = "exit"
          /\ UNCHANGED <<err, frame, log>>
     ELSE \E r \in LineStep(frame.lines[frame.i], self_handle, frame.uri, log) :
            /\ log' = r.log
            /\ IF r.err = None
               THEN /\ frame' = [frame EXCEPT !.i = @ + 1]
                    /\ pc' = pc /\ err' = err
               ELSE /\ Raise(r.err)
                    /\ UNCHANGED frame
  /\ UNCHANGED <<prog, args, tokenFs, outFs, init, self_handle, session>>

\* the token file left as it is
save_token_Skipped(tf, s) == tf

\* save_token: the exported session string replaces the token file
save_token(tf, s) == TokenFile(s)

\* __exit__: runs when the with-block ends, normally or by an exception
BskyListTool_exit ==
  /\ prog = "tool" /\ pc = "exit"
  /\ tokenFs' = save_token(tokenFs, session)
  /\ log' = Append(log, EvSaveToken(session))
  /\ pc' = "done"
  /\ UNCHANGED <<prog, err, args, outFs, init, self_handle, session, frame>>

(* -------------------------- bskyListBackup.py ------------------------- *)
BSKY_HANDLE == "chaosbengel.de"
\* os.environ.get("BSKY_APP_PASS")
BSKY_APP_PASS == "pw_env"

\* a run without with-block: an exception ends it at once
Crash(e) == pc' = "crashed" /\ err' = e

\* main, lines 42-43 (bskyMassLister.py lines 51-53): client.login
Script_login ==
  /\ prog \in {"backup", "masslister"} /\ pc = "main"
  /\ \/ /\ log' = Append(log, EvLogin(BSKY_HANDLE, BSKY_APP_PASS, FALSE))
        /\ Crash("LoginError")
        /\ UNCHANGED session
     \/ \E t \in Tokens :
          /\ log' = Append(log, EvLogin(BSKY_HANDLE, BSKY_APP_PASS, TRUE))
          /\ session' = t
          /\ pc' = "get_list_uri"
          /\ err' = err
  /\ UNCHANGED <<prog, args, tokenFs, outFs, init, self_handle, frame>>

\* bskyListBackup.py get_list_uri, lines 18-26: NoUri is list_uri = None,
\* which raises ListNotFoundException
RECURSIVE Backup_get_list_uri(_, _)
Backup_get_list_uri(list_name, lists) ==
  IF lists = <<>> THEN NoUri
  ELSE IF Head(lists).name = list_name THEN Head(lists).uri
  ELSE Backup_get_list_uri(list_name, Tail(lists))

TARGET_LIST == "Hatespam"

\* bskyMassLister.py get_list_uri, lines 36-44: the scan compares with
\* TARGET_LIST, not with its parameter
RECURSIVE MassLister_get_list_uri(_, _)
MassLister_get_list_uri(list_name, lists) ==
  IF lists = <<>> THEN NoUri
  ELSE IF Head(lists).name = TARGET_LIST THEN Head(lists).uri
  ELSE MassLister_get_list_uri(list_name, Tail(lists))

\* main, line 44 (bskyMassLister.py line 54): list_uri = get_list_uri(...)
Script_get_list_uri ==
  /\ prog \in {"backup", "masslister"} /\ pc = "get_list_uri"
  /\ \/ /\ log' = Append(log, EvGetLists(BSKY_HANDLE, FALSE))
        /\ Crash("TransportError")
        /\ UNCHANGED frame
     \/ \E ls \in ListSets :
          LET u == IF prog = "backup" THEN Backup_get_list_uri(args.list_name, ls)
                   ELSE MassLister_get_list_uri(TARGET_LIST, ls) IN
          /\ log' = Append(log, EvGetLists(BSKY_HANDLE, TRUE))
          /\ frame' = [frame EXCEPT !.response = ls, !.uri = u]
          /\ IF u = NoUri THEN Crash("ListNotFoundException")
             ELSE pc' = prog /\ err' = err
  /\ UNCHANGED <<prog, args, tokenFs, outFs, init, self_handle, session>>

\* f.write(entry.subject.did + '\n') for every entry of items, in order
RECURSIVE WriteAll(_, _)
WriteAll(data, items) ==
  IF items = <<>> THEN data
  ELSE WriteAll(WriteLine(data, Head(items).subject.did), Tail(items))

\* BskyListTool.backup_list, lines 105-113, as a function of the chain of
\* pages: what the loop has written when it ends, started with `cursor`
RECURSIVE backup_list_loop(_, _, _)
backup_list_loop(chain, cursor, data) ==
  LET page == ServerPage("backup_list", chain, cursor)
      written == WriteAll(data, page.items)
  IN IF page.cursor = NoCursor THEN written
     ELSE backup_list_loop(chain, page.cursor, written)

RECURSIVE WriteEvents(_, _, _)
WriteEvents(l, path, items) ==
  IF items = <<>> THEN l
  ELSE WriteEvents(Append(l, EvWrite(path, Head(items).subject.did)), path, Tail(items))

\* bskyListBackup.py backup_list, lines 29-34: one get_list request without
\* limit and without cursor, then the file is opened and the items of that
\* answer (the first page) written
Backup_backup_list ==
  /\ prog = "backup" /\ pc = "backup"
  /\ \/ /\ log' = Append(log, EvFetch("backup_list", frame.uri, None, NoCursor, FALSE))
        /\ Crash("TransportError")
        /\ UNCHANGED <<frame, outFs>>
     \/ \E c \in Chains :
          LET page == ServerPage("backup_list", c, NoCursor) IN
          /\ frame' = [frame EXCEPT !.response = <<>>, !.chain = c, !.page = page.items]
          /\ outFs' = [OpenW(outFs) EXCEPT !.data = WriteAll(@, page.items)]
          /\ log' = WriteEvents(
                      Append(Append(log, EvFetch("backup_list", frame.uri, None,
                                                 NoCursor, TRUE)),
                             EvOpen(args.file)),
                      args.file, page.items)
          /\ pc' = "done"
          /\ err' = err
  /\ UNCHANGED <<prog, args, tokenFs, init, self_handle, session>>

(* ------------------------ scratch/bskyMassLister.py ------------------- *)
\* main, line 55: with open(args.filename, 'r') as f
MassLister_open ==
  /\ prog = "masslister" /\ pc = "masslister"
  /\ \/ /\ Crash("FileNotFoundError")
        /\ UNCHANGED frame
     \/ /\ \E f \in InputFiles :
             frame' = [frame EXCEPT !.response = <<>>, !.lines = f, !.i = 1]
        /\ pc' = "masslister_loop"
        /\ err' = err
  /\ UNCHANGED <<prog, args, tokenFs, outFs, init, self_handle, session, log>>

\* main, lines 56-63: the next line of the file, or the end
MassLister_line ==
  /\ prog = "masslister" /\ pc = "masslister_loop"
  /\ IF frame.i > Len(frame.lines)
     THEN /\ pc' = "done"
          /\ UNCHANGED <<err, frame, log>>
     ELSE \E r \in LineStep(frame.lines[frame.i], BSKY_HANDLE, frame.uri, log) :
            /\ log' = r.log
            /\ IF r.err = None
               THEN /\ frame' = [frame EXCEPT !.i = @ + 1]
                    /\ pc' = pc /\ err' = err
               ELSE /\ Crash(r.err)
                    /\ UNCHANGED frame
  /\ UNCHANGED <<prog, args, tokenFs, outFs, init, self_handle, session>>

(* ------------------------------ the run ------------------------------- *)
BaseArgs ==
  [cmd |-> "fetch", list_name |-> None, owner |-> "owner", handle |-> "someone",
   url |-> <<>>, file |-> "file"]

ToolArgs ==
  {[BaseArgs EXCEPT !.cmd = c, !.list_name = n] :
      c \in {"list_add", "fetch_list"}, n \in ListNames} \cup
  {[BaseArgs EXCEPT !.cmd = "fetch_likes", !.url = u] : u \in PostUrls} \cup
  {[BaseArgs EXCEPT !.cmd = "fetch_followers"], BaseArgs}

\* the commands that write the output file
WritesOutput(a) == a.cmd \in {"fetch_list", "fetch_followers", "fetch_likes"}

\* bskyListBackup.py: list, file; bskyMassLister.py: filename
BackupArgs == {[BaseArgs EXCEPT !.cmd = "fetch_list", !.list_name = n] : n \in ListNames}
MassListerArgs == {[BaseArgs EXCEPT !.cmd = "list_add", !.list_name = TARGET_LIST]}

Init ==
  /\ prog \in {"tool", "backup", "masslister"}
  /\ pc = "main"
  /\ err = None
  /\ args \in CASE prog = "tool" -> ToolArgs
              [] prog = "backup" -> BackupArgs
              [] prog = "masslister" -> MassListerArgs
  /\ tokenFs \in IF prog = "tool" THEN {NoFile, TokenFile("tokA")} ELSE {NoFile}
  /\ outFs \in IF WritesOutput(args) THEN {NoFile, OldOutput} ELSE {NoFile}
  /\ init = NoInit
  /\ self_handle = None
  /\ session = None
  /\ frame = Frame0(None)
  /\ log = <<>>

Next ==
  \/ BskyListTool_init
  \/ Main_match
  \/ backup_list_resolve
  \/ backup_list_open
  \/ get_followers_open
  \/ get_likes_link
  \/ get_likes_open
  \/ Collect_fetch
  \/ Collect_write
  \/ add_file_exists
  \/ add_file_resolve
  \/ add_file_open
  \/ add_file_line
  \/ BskyListTool_exit
  \/ Script_login
  \/ Script_get_list_uri
  \/ Backup_backup_list
  \/ MassLister_open
  \/ MassLister_line

Spec == Init /\ [][Next]_vars

(* =============================== claims =============================== *)
CollectFns == {"backup_list", "get_followers", "get_likes"}

IsFetch(e) == e.type = "fetch"
Fetches == SelectSeq(log, IsFetch)

\* the collection the service holds, and the lines a full export of it has
Collection == Flatten(frame.chain)
ExpectedLines == [k \in 1..Len(Collection) |-> <<Collection[k], "\n">>]

\* a collection method of the tool has returned without an exception
CollectCompleted ==
  prog = "tool" /\ frame.fn \in CollectFns /\ pc \in {"exit", "done"} /\ err = None

\* C1: when backup_list, get_followers or get_likes completes, the output
\* file holds exactly the dids of the N items of the collection, one per
\* line, in the service's order, whatever the file held before and however
\* the service cut the collection into pages.
C1_ExportIsCollection ==
  CollectCompleted => outFs.exists /\ outFs.data = ExpectedLines

C1_Witness ==
  /\ CollectCompleted /\ pc = "done" /\ frame.fn = "get_likes"
  /\ Len(frame.chain) = 3 /\ Len(frame.chain[2]) = 0
  /\ Len(outFs.data) = 3

CeilDiv(n, d) == (n + d - 1) \div d

\* C2 as stated: the number of page requests of a completed collection
\* method is ceil(N/limit), or 1 when N = 0, however the service paginates.
C2_FetchesAreCeil ==
  CollectCompleted =>
    Len(Fetches) = IF Len(Collection) = 0 THEN 1 ELSE CeilDiv(Len(Collection), PageLimit)

\* every page but the last is full, and the last is not empty unless the
\* collection is
DensePages(chain) ==
  /\ \A j \in 1..(Len(chain) - 1) : Len(chain[j]) = PageLimit
  /\ Len(chain) > 1 => Len(chain[Len(chain)]) > 0

\* C2 amended: the number of page requests is the number of pages the service
\* delivers up to the first one without cursor; that is at least ceil(N/limit)
\* and at least 1, and it is ceil(N/limit) (1 when N = 0) when the service
\* fills every page but the last and sends no empty last page.
C2_FetchesArePages ==
  CollectCompleted =>
    /\ Len(Fetches) = Len(frame.chain)
    /\ Len(Fetches) >= 1
    /\ Len(Fetches) >= CeilDiv(Len(Collection), PageLimit)
    /\ DensePages(frame.chain) =>
         Len(Fetches) = IF Len(Collection) = 0 THEN 1
                        ELSE CeilDiv(Len(Collection), PageLimit)

C2_Witness ==
  /\ CollectCompleted /\ Len(Collection) = PageLimit
  /\ Len(frame.chain) = 2 /\ Len(frame.chain[1]) = PageLimit
  /\ Len(Fetches) = 2

\* the cursor the service returned with the page the k-th request asked for
ReturnedCursor(k) == ServerPage(frame.fn, frame.chain, Fetches[k].cursor).cursor

\* C3: in a collection loop the first page request carries no cursor and
\* every later request carries the cursor the preceding page returned, which
\* is a cursor (not None) and differs from every cursor sent before.
C3_CursorChain ==
  prog = "tool" /\ frame.fn \in CollectFns =>
    \A k \in 1..Len(Fetches) :
      /\ k = 1 => Fetches[k].cursor = NoCursor
      /\ k > 1 => /\ Fetches[k].cursor = ReturnedCursor(k - 1)
                  /\ Fetches[k].cursor # NoCursor
                  /\ \A j \in 1..(k - 1) : Fetches[j].cursor # Fetches[k].cursor

C3_Witness ==
  /\ prog = "tool" /\ frame.fn = "get_followers"
  /\ Len(Fetches) = 3 /\ Fetches[3].cursor = 2 /\ Fetches[3].ok

\* pages still to be fetched, then items still to be written: it decreases
\* with every step of the loop and is never negative
LoopMeasure ==
  (Len(frame.chain) - Len(Fetches)) * (PageLimit + 2)
    + (IF pc = "collect_write" THEN Len(frame.page) - frame.i + 2 ELSE 0)

InLoop == prog = "tool" /\ pc \in {"collect_fetch", "collect_write"}

\* the lines of the page fetched last are the end of the output file
LastPageWritten ==
  LET n == Len(frame.page)
      m == Len(outFs.data) IN
  /\ m >= n
  /\ \A k \in 1..n :
       outFs.data[m - n + k] = <<Collection[Len(Collection) - n + k], "\n">>

\* C4: a collection loop ends exactly when the page just fetched carried no
\* cursor: it is left (without exception) only after a page without cursor,
\* whose items have all been written, a page with a cursor is followed by
\* another request, and every step of the loop brings its end nearer, so the
\* loop ends once the service has returned a page without cursor.
C4_LoopEndsAtAbsentCursor ==
  [][InLoop =>
       /\ (pc' = "exit" /\ err' = None) =>
            /\ ReturnedCursor(Len(Fetches)) = NoCursor
            /\ Len(Fetches) = Len(frame.chain)
            /\ LastPageWritten
       /\ (pc = "collect_write" /\ frame.i > Len(frame.page)
             /\ ReturnedCursor(Len(Fetches)) # NoCursor) => pc' = "collect_fetch"
       /\ (pc = "collect_write" /\ frame.i > Len(frame.page)
             /\ ReturnedCursor(Len(Fetches)) = NoCursor) => pc' = "exit"
       /\ LoopMeasure' < LoopMeasure
       /\ LoopMeasure' >= 0]_vars

C4_Witness ==
  /\ CollectCompleted /\ Len(frame.chain) = 2
  /\ Len(frame.chain[2]) = PageLimit /\ Len(outFs.data) = PageLimit + 1

IsLogin(e) == e.type = "login"
Logins == SelectSeq(log, IsLogin)

\* the tool's run is inside or just behind __init__: its frame is in `init`
AfterInit == prog = "tool" /\ pc \in {"constructed", "crashed"}

\* C5: session creation sends at most one login request and picks its method
\* by the token file alone: with a token file the request is a token login
\* with the file's content and no handle+password login is sent, also when a
\* password was supplied; without a token file it is a handle+password login.
C5_OneLoginMethod ==
  prog = "tool" =>
    /\ Len(Logins) <= 1
    /\ pc = "constructed" => Len(Logins) = 1 /\ Logins[1].ok
    /\ pc # "done" =>
         \A k \in 1..Len(Logins) :
           IF tokenFs.exists
           THEN Logins[k].method = "token" /\ Logins[k].secret = tokenFs.data
           ELSE Logins[k].method = "password"
    /\ AfterInit /\ Len(Logins) = 1 /\ ~tokenFs.exists =>
         Logins[1].handle = init.handle /\ Logins[1].secret = init.password

C5_Witness ==
  /\ prog = "tool" /\ pc = "constructed" /\ tokenFs.exists
  /\ init.arg_password # None /\ init.file_pw # None
  /\ Logins[1].method = "token"

\* what the sources hold: the explicit argument first, then the credential file
Available(arg, inFile) == arg # None \/ inFile # None

\* C6 as stated: with a token file and no handle or password from any source,
\* session creation logs in with the token and raises no credential error.
C6_TokenNeedsNoCredentials ==
  (AfterInit /\ init.token # None
     /\ ~Available(init.arg_handle, init.cred_file.my_handle)
     /\ ~Available(init.arg_password, init.cred_file.app_password)) =>
    /\ err # "ValueError"
    /\ Len(Logins) = 1 /\ Logins[1].method = "token"

\* C7 as stated: without a token file, session creation raises the
\* credential error exactly when the handle or the password is in neither
\* the arguments nor the credential file; an argument wins over the file;
\* when it raises, no login request has been sent.
C7_CredentialErrorIffMissing ==
  (AfterInit /\ init.token = None) =>
    /\ err = "ValueError" <=>
         \/ ~Available(init.arg_handle, init.cred_file.my_handle)
         \/ ~Available(init.arg_password, init.cred_file.app_password)
    /\ err = "ValueError" => Len(Logins) = 0
    /\ Len(Logins) = 1 =>
         /\ Logins[1].handle = IF init.arg_handle # None THEN init.arg_handle
                               ELSE init.cred_file.my_handle
         /\ Logins[1].secret = IF init.arg_password # None THEN init.arg_password
                               ELSE init.cred_file.app_password

IsSaveToken(e) == e.type = "save_token"

\* C8: every run of the tool whose session was created ends by persisting the
\* token, whether the command returned or raised: an exception inside the
\* command never ends the run without __exit__, the save is the last entry of
\* the log and the only save, and at the end the token file holds the
\* session string the client exports.
C8_PersistIsLast ==
  prog = "tool" =>
    /\ pc = "crashed" => frame.fn = None /\ Len(log) <= 1
    /\ \A k \in 1..Len(log) : IsSaveToken(log[k]) => k = Len(log) /\ pc = "done"
    /\ pc = "done" =>
         /\ Len(log) > 0 /\ IsSaveToken(log[Len(log)])
         /\ log[Len(log)].data = session
         /\ tokenFs = TokenFile(session)

C8_Witness ==
  /\ prog = "tool" /\ pc = "done" /\ err = "TransportError"
  /\ frame.fn = "backup_list" /\ Len(Fetches) = 2
  /\ Logins[1].method = "token" /\ Logins[1].secret = "tokA"
  /\ tokenFs = TokenFile("tokB")

\* the list name a run asks for
RequestedName == IF prog = "masslister" THEN TARGET_LIST ELSE args.list_name

\* the answer of the service is in frame.response: the name has just been
\* resolved, or the resolution has just failed
JustResolved ==
  \/ pc \in {"backup_list_open", "add_file_open", "backup", "masslister"}
  \/ err = "ListNotFoundException"

Matches(ls, name) == {k \in 1..Len(ls) : ls[k].name = name}

\* C9: resolving a list name yields the uri of the first list of the answer,
\* in its order, whose name is the requested one; when no list has the name
\* the resolution raises ListNotFoundException and yields no uri.
C9_FirstMatchWins ==
  JustResolved =>
    LET m == Matches(frame.response, RequestedName) IN
    IF m = {}
    THEN err = "ListNotFoundException" /\ frame.uri = NoUri
    ELSE /\ err = None
         /\ \E k \in m : /\ \A j \in m : k <= j
                         /\ frame.uri = frame.response[k].uri

C9_Witness ==
  /\ prog = "tool" /\ pc = "backup_list_open"
  /\ Len(frame.response) = 2
  /\ frame.response[1].name = args.list_name /\ frame.response[2].name = args.list_name
  /\ frame.uri = frame.response[1].uri

IsLineRequest(e) == e.type \in {"resolve", "create"} /\ (e.type = "resolve" => e.via = "resolver")

\* the handle-resolution and membership requests of the log, each with the
\* text it carries
LineRequests ==
  LET q == SelectSeq(log, IsLineRequest) IN
  [k \in 1..Len(q) |-> IF q[k].type = "resolve" THEN <<"resolve", q[k].handle>>
                       ELSE <<"create", q[k].subject>>]

AllWhitespace(line) == \A k \in 1..Len(line) : line[k] \in Whitespace

\* the line up to its last character that is not whitespace
Trimmed(line) ==
  LET n == CHOOSE k \in 1..Len(line) :
             line[k] \notin Whitespace /\ \A j \in (k + 1)..Len(line) : line[j] \in Whitespace
  IN SubSeq(line, 1, n)

Remainder(line) ==
  LET t == Trimmed(line) IN IF t[1] = "@" THEN SubSeq(t, 2, Len(t)) ELSE t

HasDidPrefix(r) ==
  Len(r) >= 4 /\ r[1] = "d" /\ r[2] = "i" /\ r[3] = "d" /\ r[4] = ":"

\* what the claim says a line causes
ClaimedRequests(line) ==
  IF AllWhitespace(line) THEN <<>>
  ELSE LET r == Remainder(line) IN
       IF HasDidPrefix(r) THEN << <<"create", r>> >>
       ELSE << <<"resolve", r>>, <<"create", DidOf(r)>> >>

RECURSIVE ClaimedForLines(_)
ClaimedForLines(lines) ==
  IF lines = <<>> THEN <<>>
  ELSE ClaimedRequests(Head(lines)) \o ClaimedForLines(Tail(lines))

\* the add loop of the tool or of bskyMassLister.py, no request failed so far
AddingLines ==
  /\ \/ prog = "tool" /\ frame.fn = "add_file_to_list" /\ pc \in {"add_loop", "exit", "done"}
     \/ prog = "masslister" /\ pc \in {"masslister_loop", "done"}
  /\ frame.i >= 1
  /\ err = None

\* C10: a blank or whitespace-only line causes no resolver call and no
\* membership write; any other line is cut at its last non-whitespace
\* character and loses one leading '@'; if the rest starts with 'did:' it is
\* the subject of the write and no handle is resolved, else exactly one
\* resolution of the rest is made and its result is the subject.
C10_NormalizedLines ==
  AddingLines => LineRequests = ClaimedForLines(SubSeq(frame.lines, 1, frame.i - 1))

C10_Witness ==
  /\ AddingLines /\ prog = "tool" /\ frame.i = 3
  /\ frame.lines[1] = <<"@", "d", "i", "d", ":", "a", "\n">>
  /\ frame.lines[2] = <<"@", "@", "a", "\n">>
  /\ LineRequests = << <<"create", <<"d", "i", "d", ":", "a">> >>,
                       <<"resolve", <<"@", "a">> >>,
                       <<"create", DidOf(<<"@", "a">>)>> >>

\* the add loop of the tool or of bskyMassLister.py, at any point, failed or not
InAddLoop ==
  /\ \/ prog = "tool" /\ frame.fn = "add_file_to_list" /\ pc \in {"add_loop", "exit", "done"}
     \/ prog = "masslister" /\ pc \in {"masslister_loop", "done", "crashed"}
  /\ frame.i >= 1

LineFailed == InAddLoop /\ err # None

NotBlankLine(line) == ~AllWhitespace(line)

\* the subject the claim gives a non-blank line
ClaimedSubject(line) ==
  LET r == Remainder(line) IN IF HasDidPrefix(r) THEN r ELSE DidOf(r)

IsCreated(e) == e.type = "create" /\ e.ok

\* the subjects of the records created so far, in the order of creation
CreatedSubjects ==
  LET q == SelectSeq(log, IsCreated) IN [k \in 1..Len(q) |-> q[k].subject]

IsFailedLineRequest(e) == IsLineRequest(e) /\ ~e.ok

\* the requests of the log, persisting the token left aside
IsRequest(e) == e.type \notin {"save_token", "open_w", "write"}
Requests == SelectSeq(log, IsRequest)

\* C11: memberships are created in input-file order, one per non-blank
\* line; a failed handle resolution or creation ends the run at that line:
\* the records created are those of the non-blank lines before it, they
\* stay, and the failed request is the last request of the run.
C11_FailureAbortsAtLine ==
  InAddLoop =>
    LET before == SelectSeq(SubSeq(frame.lines, 1, frame.i - 1), NotBlankLine) IN
    /\ CreatedSubjects = [k \in 1..Len(before) |-> ClaimedSubject(before[k])]
    /\ \A k \in 1..Len(log) : log[k].type = "create" =>
         \A j \in 1..(k - 1) : log[j].type = "create" => log[j].created_at < log[k].created_at
    /\ IF err = None
       THEN SelectSeq(log, IsFailedLineRequest) = <<>>
       ELSE /\ pc # "add_loop" /\ pc # "masslister_loop"
            /\ frame.i <= Len(frame.lines)
            /\ NotBlankLine(frame.lines[frame.i])
            /\ Len(SelectSeq(log, IsFailedLineRequest)) = 1
            /\ LET last == Requests[Len(Requests)] IN
               /\ IsFailedLineRequest(last)
               /\ last.type = "resolve" => last.handle = Remainder(frame.lines[frame.i])
               /\ last.type = "create" => last.subject = ClaimedSubject(frame.lines[frame.i])

C11_Witness ==
  /\ prog = "tool" /\ pc = "done" /\ LineFailed
  /\ frame.i = 2
  /\ Len(CreatedSubjects) = 1
  /\ ~Requests[Len(Requests)].ok

\* the number of members of the finite set of indices
CountOf(S) == Cardinality(S)

\* C12: membership writes are neither idempotent nor deduplicated: a
\* subject that k processed lines name is the subject of k creation
\* requests for the same list, and no request reads the list's members.
C12_NoDeduplication ==
  (InAddLoop /\ err = None) =>
    /\ \A j \in 1..(frame.i - 1) : NotBlankLine(frame.lines[j]) =>
         LET s == ClaimedSubject(frame.lines[j]) IN
         CountOf({k \in 1..Len(log) : IsCreateOf(log[k], s) /\ log[k].list = frame.uri})
           = CountOf({m \in 1..(frame.i - 1) :
                        NotBlankLine(frame.lines[m]) /\ ClaimedSubject(frame.lines[m]) = s})
    /\ \A k \in 1..Len(log) : log[k].type # "fetch"

C12_Witness ==
  /\ prog = "tool" /\ pc = "done" /\ err = None /\ frame.fn = "add_file_to_list"
  /\ Len(frame.lines) = 2
  /\ frame.lines[1] # frame.lines[2]
  /\ Len(CreatedSubjects) = 2
  /\ CreatedSubjects[1] = CreatedSubjects[2]

\* the positions of '/' in the text, and the n-th of them (0 before the
\* text, one past its end when there are fewer)
SlashesOf(url) == {i \in 1..Len(url) : url[i] = "/"}
NthSlash(url, n) ==
  IF n = 0 THEN 0
  ELSE IF n > Cardinality(SlashesOf(url)) THEN Len(url) + 1
  ELSE CHOOSE i \in SlashesOf(url) : Cardinality({j \in SlashesOf(url) : j <= i}) = n

\* segment k (counted from 0) of the text split on '/'
SegmentCount(url) == Cardinality(SlashesOf(url)) + 1
Segment(url, k) == SubSeq(url, NthSlash(url, k) + 1, NthSlash(url, k + 1) - 1)

\* get_likes has gone through its post-URL parsing
LinkParsed ==
  /\ prog = "tool" /\ frame.fn = "get_likes" /\ pc # "get_likes"

IsClientResolve(e) == e.type = "resolve" /\ e.via = "client"
ClientResolves == SelectSeq(log, IsClientResolve)

\* C13: the post reference is 'at://X/app.bsky.feed.post/<segment 6>' with
\* X the identifier that segment 4 resolves to, asked for in one request;
\* a URL of fewer than 7 segments fails before any handle resolution or
\* likes request is sent.
C13_PostUrlParsing ==
  LinkParsed =>
    IF SegmentCount(args.url) < 7
    THEN /\ err = "IndexError"
         /\ pc \in {"exit", "done"}
         /\ ClientResolves = <<>>
         /\ Fetches = <<>>
         /\ frame.at_uri = <<>>
    ELSE /\ Len(ClientResolves) = 1
         /\ ClientResolves[1].handle = Segment(args.url, 4)
         /\ err # "IndexError"
         /\ IF ClientResolves[1].ok
            THEN /\ frame.at_uri = s_at_scheme \o DidOf(Segment(args.url, 4))
                                     \o s_post_collection \o Segment(args.url, 6)
                 /\ \A k \in 1..Len(Fetches) :
                      Fetches[k].endpoint = "get_likes" /\ Fetches[k].target = frame.at_uri
            ELSE Fetches = <<>> /\ err # None

C13_Witness ==
  /\ LinkParsed /\ pc = "done"
  /\ SegmentCount(args.url) = 6
  /\ err = "IndexError"
  /\ Len(log) = 2

C13_WitnessParsed ==
  /\ LinkParsed /\ pc = "done" /\ err = None
  /\ SegmentCount(args.url) > 7
  /\ Len(Fetches) >= 1

IsOpen(e) == e.type = "open_w"

\* a fetch operation of the tool, its output file opened
OutputOpened ==
  /\ prog = "tool" /\ frame.fn \in CollectFns
  /\ SelectSeq(log, IsOpen) # <<>>

IsFetched(e) == IsFetch(e) /\ e.ok

\* the lines of the first n pages of the chain
LinesOfPages(n) ==
  LET items == Flatten(SubSeq(frame.chain, 1, n)) IN
  [k \in 1..Len(items) |-> <<items[k], "\n">>]

\* the page fetch failed: the last request of the log is a fetch without answer
FetchFailed == Fetches # <<>> /\ ~Fetches[Len(Fetches)].ok

\* C14: from the opening of the output file on, what the fetch operation
\* has written to it is a prefix of the lines a completed run writes, each
\* line whole and ended by a newline, with nothing of the old content; after
\* a failed page fetch it is the lines of the pages fetched before.
C14_OutputIsPrefix ==
  OutputOpened =>
    /\ outFs.exists
    /\ Len(outFs.data) <= Len(ExpectedLines)
    /\ \A k \in 1..Len(outFs.data) :
         outFs.data[k] = ExpectedLines[k] /\ outFs.data[k][2] = "\n"
    /\ Len(outFs.data) >= Len(LinesOfPages(Len(SelectSeq(log, IsFetched)) - 1))
    /\ FetchFailed =>
         /\ err = "TransportError" /\ pc \in {"exit", "done"}
         /\ outFs.data = LinesOfPages(Len(SelectSeq(log, IsFetched)))

C14_Witness ==
  /\ OutputOpened /\ FetchFailed /\ pc = "done"
  /\ Len(SelectSeq(log, IsFetched)) = 2
  /\ Len(outFs.data) = 2
  /\ Len(ExpectedLines) = 3

\* list add has passed its check of the input file
InputChecked ==
  /\ prog = "tool" /\ frame.fn = "add_file_to_list" /\ pc # "add_file_to_list"

\* the requests a command sends: all but the session's login
IsCommandRequest(e) == e.type \in {"get_lists", "resolve", "create", "fetch"}

\* C15: list add with an absent input file fails with FileNotFoundError
\* before any request of the command: no get_lists, no handle resolution,
\* no membership creation; with the file present it does not fail so.
C15_MissingInputFirst ==
  InputChecked =>
    IF frame.file_exists
    THEN err # "FileNotFoundError"
    ELSE /\ err = "FileNotFoundError"
         /\ pc \in {"exit", "done"}
         /\ SelectSeq(log, IsCommandRequest) = <<>>
         /\ frame.uri = NoUri /\ frame.lines = <<>>

C15_Witness ==
  /\ InputChecked /\ ~frame.file_exists
  /\ pc = "done" /\ err = "FileNotFoundError"
  /\ Len(log) = 2 /\ IsLogin(log[1]) /\ IsSaveToken(log[2])

\* a run of a command that names a list
NamesList ==
  \/ prog = "tool" /\ frame.fn \in {"add_file_to_list", "backup_list"}
  \/ prog \in {"backup", "masslister"}

IsGetLists(e) == e.type = "get_lists"
GetLists == SelectSeq(log, IsGetLists)

\* a membership write or a member-page fetch
UsesList(e) == e.type = "create" \/ e.type = "fetch"

\* C16: a command that names a list sends one get_lists request, without
\* cursor and without a second page; it precedes the first membership write
\* and the first member-page fetch, and every write and page fetch of the
\* command carries the URI it resolved.
C16_ResolvedOnce ==
  NamesList =>
    /\ Len(GetLists) <= 1
    /\ \A k \in 1..Len(GetLists) : GetLists[k].cursor = NoCursor
    /\ (pc = "done" /\ err = None) => Len(GetLists) = 1
    /\ \A k \in 1..Len(log) : UsesList(log[k]) =>
         /\ \E j \in 1..(k - 1) : IsGetLists(log[j]) /\ log[j].ok
         /\ frame.uri # NoUri
         /\ log[k].type = "create" => log[k].list = frame.uri
         /\ log[k].type = "fetch" => log[k].target = frame.uri

C16_Witness ==
  /\ prog = "tool" /\ frame.fn = "backup_list" /\ pc = "done" /\ err = None
  /\ frame.uri = 2
  /\ Len(GetLists) = 1
  /\ Len(Fetches) = 3

\* the tool's session was not created: __init__ raised
SessionFailed == prog = "tool" /\ err \in {"ValueError", "LoginError"}

\* the token file __init__ read its token from
TokenFileRead == IF init.token = None THEN NoFile ELSE TokenFile(init.token)

\* C17: when session creation fails the run is over: no command runs, the
\* token file is as __init__ found it, and nothing but the one rejected
\* login was sent; a rejected token login is not followed by a password
\* login and the token stays in the file for the next run to read.
C17_FailedSessionLeavesToken ==
  SessionFailed =>
    /\ pc = "crashed"
    /\ ~ENABLED Next
    /\ frame.fn = None /\ session = None
    /\ tokenFs = TokenFileRead
    /\ log = Logins /\ Len(Logins) <= 1
    /\ err = "ValueError" => log = <<>>
    /\ err = "LoginError" => Len(Logins) = 1 /\ ~Logins[1].ok
    /\ \A k \in 1..Len(Logins) : Logins[k].method = "token" =>
         tokenFs = TokenFile(Logins[k].secret)

C17_Witness ==
  /\ SessionFailed /\ pc = "crashed" /\ err = "LoginError"
  /\ Logins = <<EvLoginToken("tokA", FALSE)>>
  /\ init.password = "pw_arg" /\ init.handle = "h_arg"
  /\ tokenFs = TokenFile("tokA")

\* fetch list or fetch likes of the tool
ResolvesName == prog = "tool" /\ frame.fn \in {"backup_list", "get_likes"}

\* the name of the command is resolved: the list's URI or the post reference
NameResolved ==
  /\ err = None
  /\ \/ frame.fn = "backup_list" /\ frame.uri # NoUri
        /\ \E k \in 1..Len(log) : IsGetLists(log[k]) /\ log[k].ok
     \/ frame.fn = "get_likes" /\ frame.at_uri # <<>>
        /\ \E k \in 1..Len(log) : IsClientResolve(log[k]) /\ log[k].ok

\* the resolution of the name failed: list not found, URL too short, or the
\* request for the lists or for the handle without answer
ResolutionFailed ==
  /\ ResolvesName
  /\ \/ err \in {"ListNotFoundException", "IndexError"}
     \/ err # None /\ Requests # <<>> /\ ~Requests[Len(Requests)].ok
        /\ (IsGetLists(Requests[Len(Requests)]) \/ IsClientResolve(Requests[Len(Requests)]))

\* the output file is absent or holds what an earlier run left
Untouched(f) == ~f.exists \/ f.data = OldOutput.data

FileChanged(f, g) == f.exists # g.exists \/ (f.exists /\ f.data # g.data)

\* C18: in fetch list and fetch likes the output file is opened only after
\* the name is resolved: a step changes the file only when the resolution
\* has succeeded, and after a failed resolution the file was never opened
\* and holds what it held before the run.
C18_ResolveBeforeOpen ==
  /\ [](ResolutionFailed => SelectSeq(log, IsOpen) = <<>> /\ Untouched(outFs))
  /\ [][(ResolvesName /\ FileChanged(outFs, outFs')) => NameResolved]_vars
  /\ [][(ResolvesName /\ SelectSeq(log', IsOpen) # SelectSeq(log, IsOpen)) =>
          NameResolved /\ outFs' = Truncated]_vars

C18_Witness ==
  /\ ResolutionFailed /\ pc = "done"
  /\ frame.fn = "backup_list" /\ err = "ListNotFoundException"
  /\ outFs = OldOutput

\* the standalone backup has run to its end
BackupCompleted == prog = "backup" /\ pc = "done" /\ err = None

\* C19: bskyListBackup.py's backup_list and BskyListTool.backup_list write
\* the same sequence of dids for every list, whatever the number of pages
\* its members span.
C19_BackupsAgree ==
  BackupCompleted => outFs.data = backup_list_loop(frame.chain, NoCursor, <<>>)
====
